---- MODULE Spec2Model ----
(***************************************************************************)
(* Model of pixel_app.py: the pixel-quantizing text renderer               *)
(* text_to_true_pixel_art and the Streamlit script that calls it.          *)
(*                                                                         *)
(* A color is an RGBA 4-tuple; Python's item[3] (alpha) is index 4 here.   *)
(* A bounding box is a 4-tuple; Python's bbox[0..3] are indices 1..4.      *)
(* An image is a record [w, h, px] with px a function from the cells       *)
(* (0..w-1) \X (0..h-1) to colors.                                         *)
(***************************************************************************)
EXTENDS Integers, Sequences, FiniteSets, TLC

\* ---------------------------------------------------------------- bounds

\* Longest text handed directly to text_to_true_pixel_art.
MaxLen == 2

\* Longest free tail of a text typed into the text field.
MaxTail == 1

\* Longest run of one repeated character in the middle of such a text.
MaxPad == 21

\* --------------------------------------------------------- configuration

\* Python's None where an image is expected.
None == [kind |-> "None"]

\* A local that is not bound yet.
Unset == <<>>

DEFAULT_TEXT_COLOR == <<0, 0, 0, 255>>

DEFAULT_BG_COLOR == <<0, 0, 0, 0>>

\* The slice bound of text_input[:20].
FILENAME_MAX_CHARS == 20

\* ----------------------------------------------------------- input sets

Black == <<0, 0, 0, 255>>

Clear == <<0, 0, 0, 0>>

Faint == <<255, 255, 255, 1>>

Colors == {Black, Clear, Faint}

RenderChars == {"a", "j", " "}

SeqsUpTo(S, n) == UNION {[1..k -> S] : k \in 0..n}

RenderTexts == SeqsUpTo(RenderChars, MaxLen)

\* The file at font_path: a loadable font, a file FreeType cannot read, no file.
FontPaths == {"good.ttf", "corrupt.ttf", "absent.ttf"}

\* What the installed Pillow offers: textbbox; only textlength; neither.
Pillows == {"textbbox", "textlength", "neither"}

\* The step at which the facility raises an exception the function has no
\* handler for (neither IOError at load nor AttributeError at measuring).
Faults == {"none", "load", "measure", "fallback", "draw"}

\* ------------------------------------------------- the font facility (PIL)

Min(S) == CHOOSE m \in S : \A n \in S : m <= n

Max(S) == CHOOSE m \in S : \A n \in S : m >= n

\* os.path.exists(font_file_path)
FileExists(p) == p # "absent.ttf"

\* ImageFont.truetype(font_path, font_size) succeeds
Loadable(p) == p = "good.ttf"

\* A glyph's advance, in 1/64 pixel.
Advance64(c) ==
    CASE c = " " -> 64
      [] c = "a" -> 160
      [] c = "j" -> 96
      [] OTHER -> 128

\* A glyph's ink: <<x, y, coverage>> relative to the pen, y down from the
\* top of the line; coverage 1..255 (anti-aliased edges are below 255).
GlyphInk(c) ==
    CASE c = " " -> {}
      [] c = "a" -> {<<0, 1, 255>>, <<1, 1, 128>>, <<0, 2, 255>>}
      [] c = "j" -> {<<-1, 2, 64>>, <<0, 1, 255>>, <<0, 2, 255>>}
      [] OTHER -> {<<0, 0, 255>>, <<0, 1, 255>>}

RECURSIVE Pen64(_, _)
Pen64(text, i) ==
    IF i <= 1 THEN 0 ELSE Pen64(text, i - 1) + Advance64(text[i - 1])

\* ImageDraw.textlength(text, font): the advance width (a float, here 1/64 px)
textlength64(text) == Pen64(text, Len(text) + 1)

\* int(x) of a non-negative float given in 1/64
IntOf64(x) == x \div 64

\* font.getmetrics(): <<ascent, descent>>
getmetrics == <<2, 1>>

\* The ink of a whole text drawn with the pen starting at (0, 0).
TextInk(text) ==
    UNION {{<<IntOf64(Pen64(text, i)) + g[1], g[2], g[3]>> : g \in GlyphInk(text[i])}
             : i \in 1..Len(text)}

CovAt(ink, x, y) ==
    LET s == {t[3] : t \in {u \in ink : u[1] = x /\ u[2] = y}}
    IN  IF s = {} THEN 0 ELSE Max(s)

\* ImageDraw.textbbox((0, 0), text, font): the box of the ink; a text without
\* ink has its advance as width and no height.
textbbox(text) ==
    LET ink == TextInk(text)
    IN  IF ink = {}
        THEN <<0, 0, IntOf64(textlength64(text)), 0>>
        ELSE <<Min({t[1] : t \in ink}), Min({t[2] : t \in ink}),
               Max({t[1] : t \in ink}) + 1, Max({t[2] : t \in ink}) + 1>>

\* Pillow's DIV255 and BLEND macros (ImagingUtils.h), used by draw.text when
\* it pastes the fill through the glyph mask.
DIV255(a) == LET tmp == a + 128 IN ((tmp \div 256) + tmp) \div 256

BLEND(m, in1, in2) == DIV255(in1 * (255 - m) + in2 * m)

\* ------------------------------------------------------------------ state

VARIABLES
    text, font_path, text_color, bg_color,   \* the call's arguments
    pillow, fault,                           \* the facility the call runs on
    pc,                                      \* position in text_to_true_pixel_art
    font, bbox, img, msgs, result,           \* its locals, notices and return value
    mask, origin,                            \* what draw.text was asked to do
    prev,                                    \* the last call that returned an image
    spc, session, text_input, events, file_name  \* the Streamlit script

args == <<text, font_path, text_color, bg_color>>

frame == <<font, bbox, img, msgs, result, mask, origin>>

shell == <<spc, session, text_input, events, file_name>>

vars == <<args, pillow, fault, pc, frame, prev, shell>>

HasTextbbox == pillow = "textbbox"

HasTextlength == pillow = "textlength"

\* --------------------------------------------------------------- images

Cells(w, h) == (0..(w - 1)) \X (0..(h - 1))

\* A faulty variant of NewImage: the buffer of the previous call is reused when it
\* has the requested size.
NewImageCached(w, h, color) ==
    IF prev # None /\ prev.result.w = w /\ prev.result.h = h
    THEN prev.result
    ELSE [kind |-> "Image", w |-> w, h |-> h, px |-> [c \in Cells(w, h) |-> color]]

\* Image.new("RGBA", (w, h), color)
NewImage(w, h, color) ==
    [kind |-> "Image", w |-> w, h |-> h, px |-> [c \in Cells(w, h) |-> color]]

\* The coverage draw.text puts on each cell of a w x h buffer when the pen
\* starts at `at`; ink outside the buffer is clipped.
MaskOf(w, h, at, txt) ==
    LET ink == TextInk(txt)
    IN  [c \in Cells(w, h) |-> CovAt(ink, c[1] - at[1], c[2] - at[2])]

\* draw.text(at, text, font=font, fill=fill): each cell is blended towards
\* the fill by its coverage, the alpha channel included (the only channel the
\* quantization reads).
DrawText(image, at, txt, fill) ==
    LET m == MaskOf(image.w, image.h, at, txt)
    IN  [image EXCEPT !.px =
            [c \in Cells(image.w, image.h) |->
                <<BLEND(m[c], image.px[c][1], fill[1]),
                  BLEND(m[c], image.px[c][2], fill[2]),
                  BLEND(m[c], image.px[c][3], fill[3]),
                  BLEND(m[c], image.px[c][4], fill[4])>>]]

\* ------------------------------------------- text_to_true_pixel_art, pieces

\* A faulty variant of IsDegenerate: both extents must vanish.
IsDegenerateBoth(text_width, text_height) ==
    text_width <= 0 /\ text_height <= 0

\* if text_width <= 0 or text_height <= 0
IsDegenerate(text_width, text_height) ==
    text_width <= 0 \/ text_height <= 0

\* A faulty variant of DrawOrigin: the text is drawn at the nominal position.
DrawOriginZero(b) == <<0, 0>>

\* (-bbox[0], -bbox[1])
DrawOrigin(b) == <<-b[1], -b[2]>>

\* A faulty variant of FallbackBBox: the descent is left out of the height.
FallbackBBoxAscentOnly(txt) ==
    <<0, 0, IntOf64(textlength64(txt)), getmetrics[1]>>

\* bbox = (0, 0, int(textlength), ascent + descent)
FallbackBBox(txt) ==
    <<0, 0, IntOf64(textlength64(txt)), getmetrics[1] + getmetrics[2]>>

\* A faulty variant of QuantizePixel: an inked pixel keeps its blended value.
QuantizePixelKeep(item, tc, bc) == IF item[4] > 0 THEN item ELSE bc

\* if item[3] > 0: text_color, else: bg_color
QuantizePixel(item, tc, bc) == IF item[4] > 0 THEN tc ELSE bc

\* The pass over img.getdata() and img.putdata(new_data).
Quantized(image, tc, bc) ==
    [image EXCEPT !.px =
        [c \in Cells(image.w, image.h) |-> QuantizePixel(image.px[c], tc, bc)]]

\* ------------------------------------------- text_to_true_pixel_art, steps

\* ImageFont.truetype succeeds.
LoadFont ==
    /\ pc = "load"
    /\ fault # "load"
    /\ Loadable(font_path)
    /\ font' = font_path
    /\ pc' = "measure"
    /\ UNCHANGED <<args, pillow, fault, bbox, img, msgs, result, mask, origin, prev, shell>>

\* except IOError: st.error, return None.
LoadFontIOError ==
    /\ pc = "load"
    /\ fault # "load"
    /\ ~Loadable(font_path)
    /\ msgs' = msgs \cup {"error: font file not found"}
    /\ result' = None
    /\ pc' = "done"
    /\ UNCHANGED <<args, pillow, fault, font, bbox, img, mask, origin, prev, shell>>

\* bbox = dummy_draw.textbbox((0, 0), text, font=font)
MeasureBBox ==
    /\ pc = "measure"
    /\ HasTextbbox
    /\ fault # "measure"
    /\ bbox' = textbbox(text)
    /\ pc' = "size"
    /\ UNCHANGED <<args, pillow, fault, font, img, msgs, result, mask, origin, prev, shell>>

\* except AttributeError: st.warning, then the box from textlength and getmetrics.
MeasureFallback ==
    /\ pc = "measure"
    /\ ~HasTextbbox
    /\ HasTextlength
    /\ fault # "fallback"
    /\ msgs' = msgs \cup {"warning: fallback text dimensions"}
    /\ bbox' = FallbackBBox(text)
    /\ pc' = "size"
    /\ UNCHANGED <<args, pillow, fault, font, img, result, mask, origin, prev, shell>>

\* The inner except AttributeError: st.error, return None.
MeasureUnavailable ==
    /\ pc = "measure"
    /\ ~HasTextbbox
    /\ ~HasTextlength
    /\ msgs' = msgs \cup {"warning: fallback text dimensions",
                          "error: cannot determine text dimensions"}
    /\ result' = None
    /\ pc' = "done"
    /\ UNCHANGED <<args, pillow, fault, font, bbox, img, mask, origin, prev, shell>>

\* The zero-size branch: st.warning, return Image.new("RGBA", (1, 1), bg_color).
ReturnDegenerate ==
    /\ pc = "size"
    /\ IsDegenerate(bbox[3] - bbox[1], bbox[4] - bbox[2])
    /\ msgs' = msgs \cup {"warning: zero width or height"}
    /\ result' = NewImage(1, 1, bg_color)
    /\ pc' = "done"
    /\ UNCHANGED <<args, pillow, fault, font, bbox, img, mask, origin, prev, shell>>

\* img = Image.new(..., bg_color); draw.text((-bbox[0], -bbox[1]), ...)
Draw ==
    /\ pc = "size"
    /\ ~IsDegenerate(bbox[3] - bbox[1], bbox[4] - bbox[2])
    /\ fault # "draw"
    /\ LET text_width == bbox[3] - bbox[1]
           text_height == bbox[4] - bbox[2]
       IN  /\ origin' = DrawOrigin(bbox)
           /\ mask' = MaskOf(text_width, text_height, origin', text)
           /\ img' = DrawText(NewImage(text_width, text_height, bg_color),
                              origin', text, text_color)
    /\ pc' = "quantize"
    /\ UNCHANGED <<args, pillow, fault, font, bbox, msgs, result, prev, shell>>

\* The quantization loop, img.putdata(new_data), return img.
Quantize ==
    /\ pc = "quantize"
    /\ img' = Quantized(img, text_color, bg_color)
    /\ result' = img'
    /\ pc' = "done"
    /\ UNCHANGED <<args, pillow, fault, font, bbox, msgs, mask, origin, prev, shell>>

\* The facility raises something no except clause of the function names:
\* the exception leaves text_to_true_pixel_art.
Raise ==
    /\ \/ pc = "load" /\ fault = "load"
       \/ pc = "measure" /\ HasTextbbox /\ fault = "measure"
       \/ pc = "measure" /\ ~HasTextbbox /\ HasTextlength /\ fault = "fallback"
       \/ pc = "size" /\ ~IsDegenerate(bbox[3] - bbox[1], bbox[4] - bbox[2])
                      /\ fault = "draw"
    /\ pc' = "raised"
    /\ UNCHANGED <<args, pillow, fault, frame, prev, shell>>

Returned == pc = "done"

ReturnedImage == pc = "done" /\ result # None

\* A fresh call frame.
EnterCall ==
    /\ pc' = "load"
    /\ font' = "None"
    /\ bbox' = Unset
    /\ img' = None
    /\ msgs' = {}
    /\ result' = None
    /\ mask' = Unset
    /\ origin' = Unset

\* ------------------------------------------- the function called directly

\* The function is called again on the same text and font, with the same
\* two colors or with the two exchanged.
Recall ==
    /\ pc \in {"done", "raised"}
    /\ prev' = IF ReturnedImage
               THEN [text_color |-> text_color, bg_color |-> bg_color, result |-> result]
               ELSE prev
    /\ \E swap \in BOOLEAN :
          /\ text_color' = (IF swap THEN bg_color ELSE text_color)
          /\ bg_color' = (IF swap THEN text_color ELSE bg_color)
    /\ fault' \in Faults
    /\ EnterCall
    /\ UNCHANGED <<text, font_path, pillow, shell>>

Init ==
    /\ text \in RenderTexts
    /\ font_path \in FontPaths
    /\ text_color \in Colors
    /\ bg_color \in Colors
    /\ pillow \in Pillows
    /\ fault \in Faults
    /\ pc = "load"
    /\ font = "None"
    /\ bbox = Unset
    /\ img = None
    /\ msgs = {}
    /\ result = None
    /\ mask = Unset
    /\ origin = Unset
    /\ prev = None
    /\ spc = "none"
    /\ session = "none"
    /\ text_input = <<>>
    /\ events = {}
    /\ file_name = Unset

Next ==
    \/ LoadFont
    \/ LoadFontIOError
    \/ MeasureBBox
    \/ MeasureFallback
    \/ MeasureUnavailable
    \/ ReturnDegenerate
    \/ Draw
    \/ Quantize
    \/ Raise
    \/ Recall

Spec == Init /\ [][Next]_vars

\* ------------------------------------------------------ the Streamlit script

\* str.isalnum() on the characters the model types.
IsAlnum(c) ==
    c \in {"a", "j", "H", "e", "l", "o", "W", "r", "d", "P", "i", "x", "2", "0", "4"}

\* The text field's default value, "Hello Pixel World!".
HelloPixelWorld ==
    <<"H", "e", "l", "l", "o", " ", "P", "i", "x", "e", "l", " ",
      "W", "o", "r", "l", "d", "!">>

\* "Hello, World!! 2024"
HelloWorld2024 ==
    <<"H", "e", "l", "l", "o", ",", " ", "W", "o", "r", "l", "d", "!", "!", " ",
      "2", "0", "2", "4">>

FieldChars == {"a", " ", "_"}

Rep(c, n) == [i \in 1..n |-> c]

\* Run lengths: none, or long enough to bring the tail to the slice bound.
PadLens == {n \in 0..MaxPad : n = 0 \/ n + MaxTail + 1 >= FILENAME_MAX_CHARS}

\* Nothing or one character.
Heads == {<<>>} \cup {<<c>> : c \in FieldChars}

\* What a user may type: at most one character, a run of one character and a
\* short tail.
FieldTexts ==
    {HelloPixelWorld, HelloWorld2024}
        \cup {h \o Rep(c, n) \o t : h \in Heads, c \in FieldChars, n \in PadLens,
                                     t \in SeqsUpTo(FieldChars, MaxTail)}

\* The fallback file name, "pixel_text".
PixelText == <<"p", "i", "x", "e", "l", "_", "t", "e", "x", "t">>

\* text_input[:n]
Slice(s, n) == SubSeq(s, 1, IF Len(s) < n THEN Len(s) ELSE n)

\* A faulty variant of RStrip: only one trailing underscore is removed.
RStripOnce(s) ==
    IF s # <<>> /\ s[Len(s)] = "_" THEN SubSeq(s, 1, Len(s) - 1) ELSE s

\* str.rstrip("_")
RECURSIVE RStrip(_)
RStrip(s) ==
    IF s # <<>> /\ s[Len(s)] = "_" THEN RStrip(SubSeq(s, 1, Len(s) - 1)) ELSE s

\* "".join(c if c.isalnum() else "_" for c in text_input[:20]).rstrip("_"),
\* and "pixel_text" if nothing is left.
safe_filename(t) ==
    LET head == Slice(t, FILENAME_MAX_CHARS)
        joined == [i \in 1..Len(head) |-> IF IsAlnum(head[i]) THEN head[i] ELSE "_"]
        stripped == RStrip(joined)
    IN  IF stripped = <<>> THEN PixelText ELSE stripped

\* A new run of the script starts from the top, with nothing bound.
NewRun ==
    /\ spc' = "start"
    /\ text_input' = Unset
    /\ events' = {}
    /\ file_name' = Unset
    /\ pc' = "idle"
    /\ font' = "None"
    /\ bbox' = Unset
    /\ img' = None
    /\ msgs' = {}
    /\ result' = None
    /\ mask' = Unset
    /\ origin' = Unset
    /\ text' = <<>>
    /\ fault' = "none"
    /\ UNCHANGED <<font_path, text_color, bg_color, pillow, prev>>

\* st.set_page_config, st.title, st.write
Start ==
    /\ spc = "start"
    /\ spc' = "check"
    /\ UNCHANGED <<args, pillow, fault, pc, frame, prev, session, text_input, events, file_name>>

\* A faulty variant of FontCheckMissing: the messages are shown, st.stop() is left out.
FontCheckMissingNoStop ==
    /\ spc = "check"
    /\ ~FileExists(font_path)
    /\ events' = events \cup {"font check failed"}
    /\ spc' = "input"
    /\ UNCHANGED <<args, pillow, fault, pc, frame, prev, session, text_input, file_name>>

\* if not os.path.exists(font_file_path): st.error, st.write, st.stop()
FontCheckMissing ==
    /\ spc = "check"
    /\ ~FileExists(font_path)
    /\ events' = events \cup {"font check failed"}
    /\ spc' = "stopped"
    /\ UNCHANGED <<args, pillow, fault, pc, frame, prev, session, text_input, file_name>>

\* The font file is there: the script goes on.
FontCheckPassed ==
    /\ spc = "check"
    /\ FileExists(font_path)
    /\ spc' = "input"
    /\ UNCHANGED <<args, pillow, fault, pc, frame, prev, session, text_input, events, file_name>>

\* text_input = st.text_input("Enter text:", value="Hello Pixel World!"): the
\* default in a fresh session, afterwards whatever the user has typed.
TextInput ==
    /\ spc = "input"
    /\ text_input' \in (IF session = "fresh" THEN {HelloPixelWorld} ELSE FieldTexts)
    /\ events' = events \cup {"text read"}
    /\ spc' = "generate"
    /\ UNCHANGED <<args, pillow, fault, pc, frame, prev, session, file_name>>

\* if text_input: pixel_image = text_to_true_pixel_art(text_input, font_file_path,
\* DEFAULT_FONT_SIZE, DEFAULT_TEXT_COLOR, DEFAULT_BG_COLOR)
Generate ==
    /\ spc = "generate"
    /\ text_input # <<>>
    /\ text' = text_input
    /\ text_color' = DEFAULT_TEXT_COLOR
    /\ bg_color' = DEFAULT_BG_COLOR
    /\ fault' \in Faults
    /\ EnterCall
    /\ events' = events \cup {"render called"}
    /\ spc' = "render"
    /\ UNCHANGED <<font_path, pillow, prev, session, text_input, file_name>>

\* else: st.info("Enter some text above ...")
InfoNoText ==
    /\ spc = "generate"
    /\ text_input = <<>>
    /\ spc' = "footer"
    /\ UNCHANGED <<args, pillow, fault, pc, frame, prev, session, text_input, events, file_name>>

\* if pixel_image: st.image, the PNG bytes, safe_filename, st.download_button
ShowAndDownload ==
    /\ spc = "render"
    /\ ReturnedImage
    /\ file_name' = safe_filename(text_input) \o <<".png">>
    /\ events' = events \cup {"image shown"}
    /\ pc' = "idle"
    /\ spc' = "footer"
    /\ UNCHANGED <<args, pillow, fault, frame, prev, session, text_input>>

\* else: pass (the function has reported the error itself)
RenderFailed ==
    /\ spc = "render"
    /\ Returned
    /\ result = None
    /\ pc' = "idle"
    /\ spc' = "footer"
    /\ UNCHANGED <<args, pillow, fault, frame, prev, session, text_input, events, file_name>>

\* An exception left text_to_true_pixel_art: the run ends there.
ScriptAborted ==
    /\ spc = "render"
    /\ pc = "raised"
    /\ pc' = "idle"
    /\ spc' = "crashed"
    /\ UNCHANGED <<args, pillow, fault, frame, prev, session, text_input, events, file_name>>

\* st.markdown("---"), st.caption(...)
Footer ==
    /\ spc = "footer"
    /\ spc' = "finished"
    /\ UNCHANGED <<args, pillow, fault, pc, frame, prev, session, text_input, events, file_name>>

\* The user changes the text field, which is on the page once a run went
\* past st.text_input: the script runs again.
UserEdits ==
    /\ spc \in {"finished", "crashed"}
    /\ session' = "edited"
    /\ NewRun

\* The page is loaded afresh: a new session, the field at its default.
Reload ==
    /\ spc \in {"finished", "crashed", "stopped"}
    /\ session' = "fresh"
    /\ NewRun

AppInit ==
    /\ text = <<>>
    /\ font_path \in FontPaths
    /\ text_color = DEFAULT_TEXT_COLOR
    /\ bg_color = DEFAULT_BG_COLOR
    /\ pillow \in Pillows
    /\ fault = "none"
    /\ pc = "idle"
    /\ font = "None"
    /\ bbox = Unset
    /\ img = None
    /\ msgs = {}
    /\ result = None
    /\ mask = Unset
    /\ origin = Unset
    /\ prev = None
    /\ spc = "start"
    /\ session = "fresh"
    /\ text_input = Unset
    /\ events = {}
    /\ file_name = Unset

AppNext ==
    \/ Start
    \/ FontCheckMissing
    \/ FontCheckPassed
    \/ TextInput
    \/ Generate
    \/ InfoNoText
    \/ LoadFont
    \/ LoadFontIOError
    \/ MeasureBBox
    \/ MeasureFallback
    \/ MeasureUnavailable
    \/ ReturnDegenerate
    \/ Draw
    \/ Quantize
    \/ Raise
    \/ ShowAndDownload
    \/ RenderFailed
    \/ ScriptAborted
    \/ Footer
    \/ UserEdits
    \/ Reload

AppSpec == AppInit /\ [][AppNext]_vars

\* ------------------------------------------------------------ properties

TextWidth == bbox[3] - bbox[1]

TextHeight == bbox[4] - bbox[2]

\* The call went through allocation and drawing.
Drew == img # None

AllSpaces(txt) == \A i \in 1..Len(txt) : txt[i] = " "

\* C1: every pixel of every returned buffer, the 1x1 buffer of the
\* degenerate path included, is exactly text_color or exactly bg_color.
C1_QuantizationIsBinary ==
    ReturnedImage =>
        \A c \in DOMAIN result.px : result.px[c] \in {text_color, bg_color}

\* A returned buffer that held an anti-aliased pixel before the pass and
\* shows both colors after it.
C1_Witness ==
    /\ ReturnedImage
    /\ Drew
    /\ text_color # bg_color
    /\ \E c \in DOMAIN mask : mask[c] \in 1..254
    /\ \E c \in DOMAIN result.px : result.px[c] = text_color
    /\ \E c \in DOMAIN result.px : result.px[c] = bg_color

C3_TightBoundingBox ==
    (pc \in {"quantize", "done"} /\ Drew) =>
        /\ img.w = bbox[3] - bbox[1]
        /\ img.h = bbox[4] - bbox[2]
        /\ DOMAIN mask = Cells(img.w, img.h)
        /\ origin = <<0 - bbox[1], 0 - bbox[2]>>
        /\ HasTextbbox =>
              LET inked == {c \in DOMAIN mask : mask[c] > 0}
              IN  /\ inked # {}
                  /\ Min({c[1] : c \in inked}) = 0
                  /\ Min({c[2] : c \in inked}) = 0
                  /\ Max({c[1] : c \in inked}) = img.w - 1
                  /\ Max({c[2] : c \in inked}) = img.h - 1

\* A drawn text whose ink box starts left of and below the nominal origin.
C3_Witness ==
    /\ ReturnedImage
    /\ Drew
    /\ HasTextbbox
    /\ bbox[1] < 0
    /\ bbox[2] > 0

\* C4: the render with the two colors exchanged has the shape of the first
\* render and is its pixel-wise color inverse.
C4_ColorSwapInverts ==
    (ReturnedImage /\ Drew /\ prev # None
        /\ prev.text_color = bg_color /\ prev.bg_color = text_color) =>
        /\ result.w = prev.result.w
        /\ result.h = prev.result.h
        /\ \A c \in DOMAIN result.px :
              /\ prev.result.px[c] = prev.text_color => result.px[c] = bg_color
              /\ prev.result.px[c] = prev.bg_color => result.px[c] = text_color
              /\ result.px[c] = text_color => prev.result.px[c] = prev.bg_color
              /\ result.px[c] = bg_color => prev.result.px[c] = prev.text_color

\* C5: the call never ends by an exception leaving the function.
C5_NeverRaises == pc # "raised"

\* C6: a call with the arguments of the previous call returns the buffer the
\* previous call returned.
C6_Deterministic ==
    (ReturnedImage /\ prev # None
        /\ prev.text_color = text_color /\ prev.bg_color = bg_color) =>
        result = prev.result

\* Two calls in a row with the same arguments, both drawn, both colors shown.
C6_Witness ==
    /\ ReturnedImage
    /\ Drew
    /\ prev # None
    /\ prev.text_color = text_color
    /\ prev.bg_color = bg_color
    /\ text_color # bg_color
    /\ \E c \in DOMAIN result.px : result.px[c] = bg_color
    /\ \E c \in DOMAIN result.px : result.px[c] = text_color

\* C9 as stated: without textbbox the call still returns an image.
C9_FallbackAlwaysImage ==
    (Returned /\ font # "None" /\ ~HasTextbbox) =>
        /\ result # None
        /\ "warning: fallback text dimensions" \in msgs

\* C9 as amended: without textbbox the call warns; if textlength is there it
\* goes on with the box (0, 0, int(advance width), ascent + descent) and
\* whatever it returns is an image, reported without an error; if textlength
\* is missing too it reports an error and returns None.
C9_FallbackBox ==
    (pc \in {"size", "quantize", "done"} /\ font # "None" /\ ~HasTextbbox) =>
        /\ "warning: fallback text dimensions" \in msgs
        /\ HasTextlength =>
              /\ bbox = <<0, 0, textlength64(text) \div 64, getmetrics[1] + getmetrics[2]>>
              /\ "error: cannot determine text dimensions" \notin msgs
              /\ Returned => result # None
              /\ (Returned /\ TextWidth > 0) => (Drew /\ result = img)
        /\ ~HasTextlength =>
              /\ result = None
              /\ "error: cannot determine text dimensions" \in msgs

\* A fallback call that drew, quantized and returned an image.
C9_Witness ==
    /\ ReturnedImage
    /\ Drew
    /\ HasTextlength
    /\ "warning: fallback text dimensions" \in msgs
    /\ result.h = getmetrics[1] + getmetrics[2]

\* C10: after the pass a pixel is text_color where the rasterizer put ink
\* and bg_color where it put none.
C10_InkDecidesColor ==
    (ReturnedImage /\ Drew) =>
        \A c \in DOMAIN result.px :
            /\ mask[c] > 0 => result.px[c] = text_color
            /\ mask[c] = 0 => result.px[c] = bg_color

\* C7: in a run whose font check failed the text field is never read and
\* text_to_true_pixel_art is never called: the run stays stopped.
C7_MissingFontStops ==
    "font check failed" \in events =>
        /\ "text read" \notin events
        /\ "render called" \notin events
        /\ spc = "stopped"
        /\ text_input = Unset
        /\ pc = "idle"

\* A run stopped by the font check, the font file missing.
C7_Witness ==
    /\ spc = "stopped"
    /\ "font check failed" \in events
    /\ ~FileExists(font_path)

\* C8: the download name before ".png" is the first 20 characters of the
\* text with every non-alphanumeric one replaced by "_", cut after the last
\* alphanumeric one, or "pixel_text" if there is none; it is never empty and
\* never ends with "_"; "Hello, World!! 2024" gives "Hello__World___2024".
C8_DownloadName ==
    file_name # Unset =>
        LET name == SubSeq(file_name, 1, Len(file_name) - 1)
            n == IF Len(text_input) < 20 THEN Len(text_input) ELSE 20
            alnum == {i \in 1..n : IsAlnum(text_input[i])}
        IN  /\ file_name[Len(file_name)] = ".png"
            /\ name # <<>>
            /\ name[Len(name)] # "_"
            /\ alnum = {} => name = PixelText
            /\ alnum # {} =>
                  /\ Len(name) = Max(alnum)
                  /\ \A i \in 1..Len(name) :
                        name[i] = (IF i \in alnum THEN text_input[i] ELSE "_")
            /\ text_input = HelloWorld2024 =>
                  name = <<"H", "e", "l", "l", "o", "_", "_", "W", "o", "r", "l", "d",
                           "_", "_", "_", "2", "0", "2", "4">>

\* A download offered for a text of more than 20 characters whose 21st is
\* alphanumeric and whose 19th and 20th are not.
C8_Witness ==
    /\ file_name # Unset
    /\ Len(text_input) > 20
    /\ IsAlnum(text_input[21])
    /\ ~IsAlnum(text_input[20])
    /\ ~IsAlnum(text_input[19])
    /\ IsAlnum(text_input[1])

====
